---- MODULE Spec2Model ----
(***************************************************************************)
(* A model of the DataProcessor package: the cleaning pipeline of          *)
(* core/processor.py (process_dataset and its three stages), the schema    *)
(* check of models/schemas.py and the configuration object of              *)
(* utils/config.py.                                                        *)
(*                                                                         *)
(* A DataFrame is a record [dtypes, rows]: dtypes maps each column name to *)
(* its dtype tag and rows is the sequence of rows in positional order (the *)
(* default RangeIndex, so every row label is unique).  A cell is a         *)
(* rational <<num, den>> in lowest terms with den > 0; the missing value   *)
(* NaN is <<0, 0>>.  Input cells are whole numbers, on which the float     *)
(* arithmetic of the quantiles (quarters and eighths) is exact, and a mean *)
(* or a median of them is the rational the float approximates.             *)
(***************************************************************************)
EXTENDS Integers, Sequences, FiniteSets, TLC

(* ------------------------------ bounds -------------------------------- *)

\* The longest input table of the stage specification.
MaxRows == 4

\* The number of process_dataset calls of the sequential specification.
MaxCalls == 3

\* The longest table of the sequential specification.
MaxSeqRows == 2

\* The longest required_columns list and column_types dict of a schema.
MaxSchemaLen == 2

\* The threads that call process_dataset on one processor.
MaxThreads == 2

(* ----------------------------- rationals ------------------------------ *)

NaN == <<0, 0>>

IsNaN(c) == c[2] = 0

Abs(n) == IF n < 0 THEN -n ELSE n

RECURSIVE GCD(_, _)
GCD(a, b) == IF b = 0 THEN a ELSE GCD(b, a % b)

\* n/d in lowest terms, d > 0.
Norm(n, d) ==
    LET g == GCD(Abs(n), Abs(d))
        s == IF d < 0 THEN -1 ELSE 1
    IN  <<(s * n) \div g, (s * d) \div g>>

Whole(n) == <<n, 1>>

RAdd(a, b) == Norm(a[1] * b[2] + b[1] * a[2], a[2] * b[2])

RSub(a, b) == Norm(a[1] * b[2] - b[1] * a[2], a[2] * b[2])

RMul(a, b) == Norm(a[1] * b[1], a[2] * b[2])

\* A float comparison: False as soon as one side is NaN.
RLess(a, b) == ~IsNaN(a) /\ ~IsNaN(b) /\ a[1] * b[2] < b[1] * a[2]

(* ------------------------------ columns ------------------------------- *)

\* The columns of a table, in DataFrame column order.
Cols == <<"id", "value">>

ColSet == {Cols[i] : i \in 1..Len(Cols)}

RECURSIVE SelectSeq2(_, _)
\* The subsequence of s at the positions where keep is TRUE.
SelectSeq2(s, keep) ==
    IF s = <<>> THEN <<>>
    ELSE (IF Head(keep) THEN <<Head(s)>> ELSE <<>>)
         \o SelectSeq2(Tail(s), Tail(keep))

\* df[col]: the cells of one column, in row order.
Column(df, col) == [i \in 1..Len(df.rows) |-> df.rows[i][col]]

\* Series.dropna(): the present cells of a column.
Present(cells) == SelectSeq(cells, LAMBDA c : ~IsNaN(c))

RECURSIVE Insert(_, _)
Insert(c, s) ==
    IF s = <<>> THEN <<c>>
    ELSE IF RLess(Head(s), c) THEN <<Head(s)>> \o Insert(c, Tail(s))
    ELSE <<c>> \o s

RECURSIVE Sorted(_)
\* The present cells in ascending order.
Sorted(cells) == IF cells = <<>> THEN <<>> ELSE Insert(Head(cells), Sorted(Tail(cells)))

RECURSIVE Sum(_)
Sum(cells) == IF cells = <<>> THEN Whole(0) ELSE RAdd(Head(cells), Sum(Tail(cells)))

(* ----------------------------- data frames ---------------------------- *)

\* The dtype tags of the model's columns.
Dtypes == {"int64", "float64", "object"}

\* DataFrame.select_dtypes(include=['float64', 'int64']).columns
NumericCols(df) ==
    SelectSeq(Cols, LAMBDA c : df.dtypes[c] \in {"float64", "int64"})

\* len(df)
RowCount(df) == Len(df.rows)

\* DataFrame.empty
IsEmpty(df) == RowCount(df) = 0

\* The rows of df at the positions where keep is TRUE, labels kept.
Filter(df, keep) ==
    [dtypes |-> df.dtypes,
     index  |-> SelectSeq2(df.index, keep),
     rows   |-> SelectSeq2(df.rows, keep)]

\* DropDuplicates with keep='last': the last occurrence stays.
DropDuplicatesLast(df) ==
    Filter(df, [i \in 1..RowCount(df) |->
                   \A j \in (i + 1)..RowCount(df) : df.rows[j] # df.rows[i]])

\* DataFrame.drop_duplicates(): a row is dropped when an earlier row has the
\* same cell in every column (NaN equal to NaN); the first occurrence stays.
DropDuplicates(df) ==
    Filter(df, [i \in 1..RowCount(df) |->
                   \A j \in 1..(i - 1) : df.rows[j] # df.rows[i]])

\* DataFrame.dropna(): the rows with no missing cell.
DropNa(df) ==
    Filter(df, [i \in 1..RowCount(df) |->
                   \A c \in ColSet : ~IsNaN(df.rows[i][c])])

\* DataFrame.isnull().sum().to_dict()
MissingCounts(df) ==
    [c \in ColSet |-> Cardinality({i \in 1..RowCount(df) : IsNaN(df.rows[i][c])})]

\* Series.quantile(k/4), linear interpolation over the present cells:
\* position k*(n-1)/4 of the sorted cells; NaN when no cell is present.
Quantile(cells, k) ==
    LET s == Sorted(Present(cells))
        n == Len(s)
        i == (k * (n - 1)) \div 4
        r == (k * (n - 1)) % 4
    IN  IF n = 0 THEN NaN
        ELSE IF r = 0 THEN s[i + 1]
        ELSE RAdd(s[i + 1], RMul(<<r, 4>>, RSub(s[i + 2], s[i + 1])))

\* Series.mean(): NaN when no cell is present.
Mean(cells) ==
    LET p == Present(cells)
    IN  IF p = <<>> THEN NaN ELSE RMul(Sum(p), <<1, Len(p)>>)

\* Series.median(): NaN when no cell is present.
Median(cells) ==
    LET s == Sorted(Present(cells))
        n == Len(s)
    IN  IF n = 0 THEN NaN
        ELSE IF n % 2 = 1 THEN s[(n + 1) \div 2]
        ELSE RMul(RAdd(s[n \div 2], s[n \div 2 + 1]), <<1, 2>>)

\* FillNa with its result thrown away: the table as it was.
FillNaDiscarded(df, fill, pandas) == df

\* The dtype of column c of df after fillna.  Up to pandas 2, fillna
\* infers the dtype of an object column anew, and one with rows whose
\* cells are all missing is float64 then; a column with a string in it
\* stays object.  From pandas 3 on fillna leaves every dtype as it is.
FilledDtype(df, c, pandas) ==
    IF /\ pandas[1] < 3
       /\ df.dtypes[c] = "object"
       /\ RowCount(df) > 0
       /\ \A i \in 1..RowCount(df) : IsNaN(df.rows[i][c])
    THEN "float64"
    ELSE df.dtypes[c]

\* DataFrame.fillna(fill): a missing cell takes its column's fill value; a
\* NaN fill value fills nothing.
FillNa(df, fill, pandas) ==
    [dtypes |-> [c \in ColSet |-> FilledDtype(df, c, pandas)],
     index  |-> df.index,
     rows   |-> [i \in 1..RowCount(df) |->
                   [c \in ColSet |->
                       IF IsNaN(df.rows[i][c]) THEN fill[c] ELSE df.rows[i][c]]]]

(* --------------------------- configuration ---------------------------- *)

\* Optional values: None is <<>>, a present value v is <<v>>.
None == <<>>

Some(v) == <<v>>

\* The strategies the code names, and one it does not.
KnownStrategies == {"mean", "median", "drop"}

Strategies == KnownStrategies \cup {"bogus"}

\* What DataProcessor.__init__ is handed as config: a dict, with or without
\* the key 'missing_value_strategy', or a ProcessingConfig instance.
DictConfig(strategy) == [kind |-> "dict", strategy |-> strategy]

\* ProcessingConfig(missing_value_strategy=strategy): the dataclass always
\* has the field.
ProcessingConfig(strategy) == [kind |-> "ProcessingConfig", strategy |-> Some(strategy)]

Configs ==
    {DictConfig(None)}
    \cup {DictConfig(Some(s)) : s \in Strategies}
    \cup {ProcessingConfig(s) : s \in Strategies}

\* The outcome of a call: a returned value, or a raised exception's message.
Return(v) == [raised |-> None, value |-> Some(v)]

Raise(msg) == [raised |-> Some(msg), value |-> None]

Raised(o) == o.raised # None

AttributeErrorGet == "'ProcessingConfig' object has no attribute 'get'"

EmptyDataset == "Empty dataset provided"

\* self.config.get('missing_value_strategy', 'mean'): dict.get on a dict;
\* a ProcessingConfig has no method get.
ConfigGet(config) ==
    IF config.kind = "dict"
    THEN Return(IF config.strategy = None THEN "mean" ELSE config.strategy[1])
    ELSE Raise(AttributeErrorGet)

(* ------------------------------- stages ------------------------------- *)

\* DataProcessor._preprocess_data
PreprocessData(df) == DropDuplicates(df)

\* The mask of one column in _remove_outliers, by row position of df:
\* FALSE where the cell is below Q1 - 1.5*IQR or above Q3 + 1.5*IQR.
OutlierMask(df, col) ==
    LET cells == Column(df, col)
        Q1  == Quantile(cells, 1)
        Q3  == Quantile(cells, 3)
        IQR == IF IsNaN(Q1) THEN NaN ELSE RSub(Q3, Q1)
        lo  == IF IsNaN(Q1) THEN NaN ELSE RSub(Q1, RMul(<<3, 2>>, IQR))
        hi  == IF IsNaN(Q1) THEN NaN ELSE RAdd(Q3, RMul(<<3, 2>>, IQR))
    IN  [i \in 1..RowCount(df) |-> ~(RLess(cells[i], lo) \/ RLess(hi, cells[i]))]

\* result[outlier_mask]: the mask is a Series over df's labels; a row of
\* result stays when the mask at its label is True.
MaskRows(df, result, mask) ==
    Filter(result, [j \in 1..RowCount(result) |->
                       \E i \in 1..RowCount(df) :
                           df.index[i] = result.index[j] /\ mask[i]])

RECURSIVE RemoveOutliersRecomputed(_, _, _)
\* RemoveOutliersLoop with the quartiles of a column taken from the rows
\* that the columns before it have left.
RemoveOutliersRecomputed(df, result, cols) ==
    IF cols = <<>> THEN result
    ELSE RemoveOutliersRecomputed(
             df, MaskRows(result, result, OutlierMask(result, Head(cols))), Tail(cols))

RECURSIVE RemoveOutliersLoop(_, _, _)
\* The loop of _remove_outliers over the numeric columns still to do.
RemoveOutliersLoop(df, result, cols) ==
    IF cols = <<>> THEN result
    ELSE RemoveOutliersLoop(df, MaskRows(df, result, OutlierMask(df, Head(cols))),
                            Tail(cols))

\* DataProcessor._remove_outliers
RemoveOutliers(df) == RemoveOutliersLoop(df, df, NumericCols(df))

\* An object column with a string in it: DataFrame.mean() and median()
\* cannot reduce it.
HasText(df) ==
    \E c \in ColSet : df.dtypes[c] = "object"
                      /\ \E i \in 1..RowCount(df) : ~IsNaN(df.rows[i][c])

\* The pandas releases setup.py admits (pandas>=1.3.0, with no upper
\* bound), as <<major, minor>>, one for each behaviour on an object column:
\* 1.3 and later of pandas 1, 2.0, 2.1 and later of pandas 2, and 3.0 and
\* later.
PandasVersions == {<<1, 3>>, <<2, 0>>, <<2, 1>>, <<3, 0>>}

\* The release that stands for all on a table without an object column.
PandasLatest == <<3, 0>>

\* The first cell of a column of strings that holds a string.
FirstText(cells) ==
    cells[CHOOSE i \in 1..Len(cells) :
              /\ ~IsNaN(cells[i])
              /\ \A j \in 1..(i - 1) : IsNaN(cells[j])]

\* The string a cell of a text column holds: the tables write a string as
\* the whole number that codes it, 0 for 'a', 1 for 'b', 3 for 'd'.
Text(cell) ==
    CASE cell = Whole(0) -> "a"
      [] cell = Whole(1) -> "b"
      [] OTHER           -> "d"

RECURSIVE Joined(_)
\* The sum of the strings of a column, which is their concatenation.
Joined(cells) ==
    IF cells = <<>> THEN "" ELSE Text(Head(cells)) \o Joined(Tail(cells))

RECURSIVE Listed(_)
\* str() of the cells of a column as numpy writes the elements of an
\* object array: each string quoted, a missing cell as nan, a space between.
Listed(cells) ==
    IF cells = <<>> THEN ""
    ELSE (IF IsNaN(Head(cells)) THEN "nan" ELSE "'" \o Text(Head(cells)) \o "'")
         \o (IF Tail(cells) = <<>> THEN "" ELSE " " \o Listed(Tail(cells)))

\* str(e) of the TypeError pandas 2 and later raise on reducing a column of
\* strings.
\* median() of 2.1 and later refuses the block of the column as it is;
\* median() of 2.0 casts the cells to float and passes on the message of
\* the cast, which names the first string.  mean() sums the cells from the
\* left with 0 in the place of a missing cell, and refuses the sum; with a
\* missing cell the sum itself fails, on 0 + str when the first cell is
\* the missing one and on str + 0 otherwise.
NotNumeric(pandas, how, cells) ==
    IF how = "median" /\ pandas = <<2, 0>>
    THEN "could not convert string to float: '" \o Text(FirstText(cells)) \o "'"
    ELSE IF how = "median"
    THEN "Cannot convert [[" \o Listed(cells) \o "]] to numeric"
    ELSE IF \A i \in 1..Len(cells) : ~IsNaN(cells[i])
    THEN "Could not convert ['" \o Joined(cells) \o "'] to numeric"
    ELSE IF IsNaN(cells[1])
    THEN "unsupported operand type(s) for +: 'int' and 'str'"
    ELSE "can only concatenate str (not \"int\") to str"

\* The column of strings of a table that has one.
TextColumn(df) ==
    CHOOSE c \in ColSet : /\ df.dtypes[c] = "object"
                          /\ \E i \in 1..RowCount(df) : ~IsNaN(df.rows[i][c])

\* Series.mean() or Series.median(), as how names it.
ReduceColumn(cells, how) == IF how = "median" THEN Median(cells) ELSE Mean(cells)

\* df.mean() and df.median(): one value per column.  A column of strings
\* is left out by pandas 1 (no fill value) and raises TypeError from pandas 2 on.
Reduce(df, pandas, how) ==
    IF HasText(df) /\ pandas[1] >= 2
    THEN Raise(NotNumeric(pandas, how, Column(df, TextColumn(df))))
    ELSE Return([c \in ColSet |->
                    IF df.dtypes[c] = "object" THEN NaN
                    ELSE ReduceColumn(Column(df, c), how)])

\* result.fillna(df.mean()) and result.fillna(df.median())
FillWith(df, pandas, how) ==
    LET fill == Reduce(df, pandas, how)
    IN  IF Raised(fill) THEN fill ELSE Return(FillNa(df, fill.value[1], pandas))

\* HandleMissingValues with an else branch that falls back to the median.
HandleMissingValuesMedian(config, df, pandas) ==
    LET strategy == ConfigGet(config)
    IN  IF Raised(strategy) THEN strategy
        ELSE IF strategy.value[1] = "drop" THEN Return(DropNa(df))
        ELSE IF strategy.value[1] = "mean" THEN FillWith(df, pandas, "mean")
        ELSE FillWith(df, pandas, "median")

\* DataProcessor._handle_missing_values
HandleMissingValues(config, df, pandas) ==
    LET strategy == ConfigGet(config)
    IN  IF Raised(strategy) THEN strategy
        ELSE IF strategy.value[1] = "drop" THEN Return(DropNa(df))
        ELSE IF strategy.value[1] = "mean" THEN FillWith(df, pandas, "mean")
        ELSE IF strategy.value[1] = "median" THEN FillWith(df, pandas, "median")
        ELSE FillWith(df, pandas, "mean")

\* timedelta.seconds of now - start: the seconds within the day.
SecondsPerDay == 86400

TimedeltaSeconds(start, clock) == (clock - start) % SecondsPerDay

\* ProcessingResult(data, stats, success); the timestamp processed_at,
\* which nothing reads, is left out.
ProcessingResult(data, stats, success) ==
    [data |-> data, stats |-> stats, success |-> success]

\* Failure with the message under another key than 'error'.
FailureOtherKey(msg) == ProcessingResult(None, [message |-> msg], FALSE)

\* The except branch of process_dataset.
Failure(msg) == ProcessingResult(None, [error |-> msg], FALSE)

\* The stats dict of process_dataset.
Stats(df, start, clock) ==
    [record_count    |-> RowCount(df),
     missing_values  |-> MissingCounts(df),
     processing_time |-> TimedeltaSeconds(start, clock)]

\* The try block of process_dataset up to the statistics: the processed
\* table, or the exception raised on the way.
Pipeline(config, data, pandas) ==
    IF IsEmpty(data) THEN Raise(EmptyDataset)
    ELSE HandleMissingValues(config, RemoveOutliers(PreprocessData(data)), pandas)

\* Except catching ValueError alone: any other exception escapes.
ExceptValueError(raised) ==
    IF raised[1] = EmptyDataset THEN Return(Failure(raised[1])) ELSE Raise(raised[1])

\* except Exception as e: every exception of the try block is caught and
\* becomes a failed ProcessingResult.
Except(raised) == Return(Failure(raised[1]))

\* Accumulate that adds nothing.
AccumulateNothing(count, stats) == count

\* Accumulate with = in the place of +=.
AccumulateAssign(count, stats) == stats.record_count

\* The counter after a successful call: self._processed_count += record_count
Accumulate(count, stats) == count + stats.record_count

\* DataProcessor.process_dataset: the outcome of the call (the
\* ProcessingResult returned, or an exception that escapes) and the new
\* value of self._processed_count.
ProcessDataset(config, count, start, clock, data, pandas) ==
    LET out == Pipeline(config, data, pandas)
    IN  IF Raised(out)
        THEN [outcome |-> Except(out.raised), count |-> count]
        ELSE LET stats == Stats(out.value[1], start, clock)
             IN  [outcome |-> Return(ProcessingResult(Some(out.value[1]), stats, TRUE)),
                  count   |-> Accumulate(count, stats)]

\* The message of the ZeroDivisionError of int / int.
ZeroDivision == "division by zero"

\* DataProcessor.processing_stats: the dict it returns, or the exception
\* it raises.  The clock is read three times, in the order the dict
\* display evaluates: t1 for uptime_seconds, t2 for the test of the
\* conditional expression, t3 for the divisor.  The quotient of two ints
\* is exact here; the 0 of the else branch is the whole number 0.
ProcessingStats(count, start, t1, t2, t3) ==
    LET uptime  == TimedeltaSeconds(start, t1)
        tested  == TimedeltaSeconds(start, t2)
        divisor == TimedeltaSeconds(start, t3)
    IN  IF tested > 0
        THEN IF divisor = 0 THEN Raise(ZeroDivision)
             ELSE Return([total_processed    |-> count,
                          uptime_seconds     |-> uptime,
                          average_throughput |-> Norm(count, divisor)])
        ELSE Return([total_processed    |-> count,
                     uptime_seconds     |-> uptime,
                     average_throughput |-> Whole(0)])

(* ------------------------------- schema ------------------------------- *)

\* set(seq): the elements of a list.
ToSet(seq) == {seq[i] : i \in 1..Len(seq)}

\* set(df.columns)
Columns(df) == DOMAIN df.dtypes

\* f"Missing required columns: {missing_columns}"
MissingMessage(missing) == <<"Missing required columns: ", missing>>

\* f"Column '{col}' has type {actual_type}, expected {expected_type}"
TypeMessage(col, actual, expected) ==
    <<"Column '", col, "' has type ", actual, ", expected ", expected>>

RECURSIVE CheckTypesAbsent(_, _)
\* CheckTypes without the test that the column is in the table: a declared
\* column the table lacks counts as a mismatch, of dtype 'None'.
CheckTypesAbsent(items, df) ==
    IF items = <<>> THEN Return(TRUE)
    ELSE LET col == Head(items)[1]
             expected_type == Head(items)[2]
             actual_type == IF col \in Columns(df) THEN df.dtypes[col] ELSE "None"
         IN  IF actual_type # expected_type
             THEN Raise(TypeMessage(col, actual_type, expected_type))
             ELSE CheckTypesAbsent(Tail(items), df)

RECURSIVE CheckTypes(_, _)
\* The loop of validate_dataframe over column_types.items(), in the dict's
\* order: the first column of the table whose dtype is not the expected
\* one raises.
CheckTypes(items, df) ==
    IF items = <<>> THEN Return(TRUE)
    ELSE LET col == Head(items)[1]
             expected_type == Head(items)[2]
         IN  IF col \in Columns(df) /\ df.dtypes[col] # expected_type
             THEN Raise(TypeMessage(col, df.dtypes[col], expected_type))
             ELSE CheckTypes(Tail(items), df)

\* ValidateDataframe with the type checks before the required columns.
ValidateTypesFirst(schema, df) ==
    LET missing_columns == ToSet(schema.required_columns) \ Columns(df)
        types == CheckTypes(schema.column_types, df)
    IN  IF Raised(types) THEN types
        ELSE IF missing_columns # {} THEN Raise(MissingMessage(missing_columns))
        ELSE Return(TRUE)

\* DatasetSchema.validate_dataframe
ValidateDataframe(schema, df) ==
    LET missing_columns == ToSet(schema.required_columns) \ Columns(df)
    IN  IF missing_columns # {}
        THEN Raise(MissingMessage(missing_columns))
        ELSE CheckTypes(schema.column_types, df)

(* ------------------------------- inputs ------------------------------- *)

\* The cells of the input tables: column id is int64 and has no missing
\* cell; column value is float64 or holds strings (object), and may miss
\* cells.  A string is written as the whole number that codes it.
IdCells == {Whole(0), Whole(1)}

ValueCells == {NaN, Whole(0), Whole(1), Whole(3)}

RowSpace == {[id |-> a, value |-> b] : a \in IdCells, b \in ValueCells}

\* pd.DataFrame(...) over the given rows: a RangeIndex labels them 0..n-1.
DataFrame(dtypes, rows) ==
    [dtypes |-> dtypes, index |-> [i \in 1..Len(rows) |-> i - 1], rows |-> rows]

\* Every sequence of at most n rows of the row space.
RowSeqs(space, n) == UNION {[1..k -> space] : k \in 0..n}

\* Every table of at most n rows.  A column of strings takes no part in
\* outlier removal, which is what needs the longest tables, so the tables
\* with one are a row shorter.
Tables(n) ==
    {DataFrame([id |-> "int64", value |-> "float64"], rows) :
         rows \in RowSeqs(RowSpace, n)}
    \cup {DataFrame([id |-> "int64", value |-> "object"], rows) :
         rows \in RowSeqs(RowSpace, n - 1)}

\* The tables of the sequential specification: short ones, with duplicate
\* rows, missing cells and strings among them.
SeqRowSpace == {[id |-> Whole(0), value |-> b] : b \in {NaN, Whole(1)}}

SeqTables ==
    {DataFrame([id |-> "int64", value |-> "float64"], rows) :
         rows \in RowSeqs(SeqRowSpace, MaxSeqRows)}
    \cup {DataFrame([id |-> "int64", value |-> "object"], rows) :
         rows \in RowSeqs(SeqRowSpace, MaxSeqRows - 1)}

\* The tables of the specifications of the threads and of the clock: the
\* empty ones, which fail, and those of one row, which add one record each.
ShortTables == {t \in SeqTables : RowCount(t) <= 1}

\* The column names of the schema specification.
Names == {"id", "value", "category"}

\* Every list of at most n column names, duplicates among them.
NameLists(n) == UNION {[1..k -> Names] : k \in 0..n}

\* Every dict of at most n items from column names to dtype tags, as the
\* sequence of its items in insertion order: no key twice.
TypeDicts(n) ==
    {items \in UNION {[1..k -> Names \X Dtypes] : k \in 0..n} :
        \A i, j \in 1..Len(items) : i # j => items[i][1] # items[j][1]}

\* DatasetSchema(required_columns=..., column_types=...)
DatasetSchema(required_columns, column_types) ==
    [required_columns |-> required_columns, column_types |-> column_types]

\* Every table header: some of the names, each with a dtype.
Frames ==
    UNION {{[dtypes |-> d, index |-> <<>>, rows |-> <<>>] : d \in [cs -> Dtypes]} :
              cs \in SUBSET Names}

(* ------------------------------- state -------------------------------- *)

VARIABLES
    config,           \* DataProcessor.config
    processed_count,  \* DataProcessor._processed_count
    start_time,       \* DataProcessor._start_time, in seconds
    now,              \* the clock datetime.now() reads, in seconds
    pandas,           \* the release of the installed pandas, <<major, minor>>
    data,             \* the table last handed to the processor
    result,           \* the outcome of the last call
    op,               \* the method last called
    calls,            \* the number of process_dataset calls made
    ok_sum,           \* the sum of record_count over the successful results
    schema,           \* the DatasetSchema in use
    clock_reads,      \* what datetime.now() returned to the last call, in order
    threads,          \* the calls of process_dataset that threads are in
    overlapped        \* whether a call began while another was under way

vars == <<config, processed_count, start_time, now, pandas, data, result, op,
          calls, ok_sum, schema, clock_reads, threads, overlapped>>

\* A schema that asks for nothing.
NoSchema == DatasetSchema(<<>>, <<>>)

\* No call made yet: nothing returned, nothing raised.
NoCall == [raised |-> None, value |-> None]

\* No thread is in a call.
NoThreads == <<>>

\* The caller makes one call at a time, from one thread.
OneCaller == threads = NoThreads /\ overlapped = FALSE

\* DataProcessor.__init__
Construct(c) ==
    /\ config = c
    /\ processed_count = 0
    /\ start_time = now

\* The builds to tell apart on a table: the pandas release shows only in
\* reducing and filling an object column, so one build stands for all on a
\* table without one.
Builds(df) ==
    IF \E c \in ColSet : df.dtypes[c] = "object" THEN PandasVersions
    ELSE {PandasLatest}

(* ------------------- the stages, one call per input ------------------- *)

\* A fresh processor for each configuration and a table to call it on.
StageInit ==
    /\ now = 0
    /\ Construct(DictConfig(None))
    /\ data \in Tables(MaxRows)
    /\ pandas \in Builds(data)
    /\ result = NoCall
    /\ op = "init"
    /\ calls = 0
    /\ ok_sum = 0
    /\ clock_reads = <<>>
    /\ OneCaller
    /\ schema = NoSchema

\* _preprocess_data(data)
CallPreprocessData ==
    /\ op = "init"
    /\ op' = "_preprocess_data"
    /\ result' = Return(PreprocessData(data))
    /\ UNCHANGED <<config, processed_count, start_time, now, pandas, data, calls, ok_sum, schema,
                   clock_reads, threads, overlapped>>

\* _remove_outliers(data)
CallRemoveOutliers ==
    /\ op = "init"
    /\ op' = "_remove_outliers"
    /\ result' = Return(RemoveOutliers(data))
    /\ UNCHANGED <<config, processed_count, start_time, now, pandas, data, calls, ok_sum, schema,
                   clock_reads, threads, overlapped>>

\* DataProcessor(c)._handle_missing_values(data)
CallHandleMissingValues(c) ==
    /\ op = "init"
    /\ op' = "_handle_missing_values"
    /\ config' = c
    /\ result' = HandleMissingValues(c, data, pandas)
    /\ UNCHANGED <<processed_count, start_time, now, pandas, data, calls, ok_sum, schema,
                   clock_reads, threads, overlapped>>

\* await DataProcessor(c).process_dataset(data)
CallProcessDataset(c) ==
    /\ op = "init"
    /\ op' = "process_dataset"
    /\ config' = c
    /\ \E r \in {ProcessDataset(c, processed_count, start_time, now, data, pandas)} :
           /\ result' = r.outcome
           /\ processed_count' = r.count
           /\ ok_sum' = ok_sum + (IF ~Raised(r.outcome) /\ r.outcome.value[1].success
                                  THEN r.outcome.value[1].stats.record_count
                                  ELSE 0)
    /\ calls' = calls + 1
    /\ clock_reads' = <<now>>
    /\ UNCHANGED <<start_time, now, pandas, data, schema, threads, overlapped>>

StageNext ==
    \/ CallPreprocessData
    \/ CallRemoveOutliers
    \/ \E c \in Configs : CallHandleMissingValues(c)

SpecStage == StageInit /\ [][StageNext]_vars

(* --------------- the whole pipeline, one call per input --------------- *)

ProcessNext == \E c \in Configs : CallProcessDataset(c)

SpecProcess == StageInit /\ [][ProcessNext]_vars

(* ---------------- one processor, called again and again --------------- *)

Init ==
    /\ now = 0
    /\ \E c \in Configs : Construct(c)
    /\ pandas \in PandasVersions
    /\ data = DataFrame([id |-> "int64", value |-> "float64"], <<>>)
    /\ result = NoCall
    /\ op = "init"
    /\ calls = 0
    /\ ok_sum = 0
    /\ clock_reads = <<>>
    /\ OneCaller
    /\ schema = NoSchema

\* result = await processor.process_dataset(t)
Process(t) ==
    /\ calls < MaxCalls
    /\ op' = "process_dataset"
    /\ data' = t
    /\ \E r \in {ProcessDataset(config, processed_count, start_time, now, t, pandas)} :
           /\ result' = r.outcome
           /\ processed_count' = r.count
           /\ ok_sum' = ok_sum + (IF ~Raised(r.outcome) /\ r.outcome.value[1].success
                                  THEN r.outcome.value[1].stats.record_count
                                  ELSE 0)
    /\ calls' = calls + 1
    /\ clock_reads' = <<now>>
    /\ UNCHANGED <<config, start_time, now, pandas, schema, threads, overlapped>>

\* The instants the clock is read at, in seconds since the construction:
\* at once, a second later, a day later and a second more than a day later.
Instants == {0, 1, SecondsPerDay, SecondsPerDay + 1}

\* Time passes, up to a later instant.
Tick(t) ==
    /\ t > now
    /\ now' = t
    /\ UNCHANGED <<config, processed_count, start_time, pandas, data, result, op,
                   calls, ok_sum, schema, clock_reads, threads, overlapped>>

\* snapshot = processor.processing_stats, the clock at t2 and then at t3 by
\* the second and the third time the property reads it.
ReadStats(t2, t3) ==
    /\ now <= t2
    /\ t2 <= t3
    /\ op' = "processing_stats"
    /\ result' = ProcessingStats(processed_count, start_time, now, t2, t3)
    /\ clock_reads' = <<now, t2, t3>>
    /\ now' = t3
    /\ UNCHANGED <<config, processed_count, start_time, pandas, data, calls, ok_sum,
                   schema, threads, overlapped>>

Next ==
    \/ \E t \in SeqTables : Process(t)
    \/ \E t \in Instants : Tick(start_time + t)

Spec == Init /\ [][Next]_vars

(* ------------- one processor, its statistics read in between ---------- *)

ClockNext ==
    \/ \E t \in ShortTables : Process(t)
    \/ \E t \in Instants : Tick(start_time + t)
    \/ \E t2, t3 \in Instants : ReadStats(start_time + t2, start_time + t3)

SpecClock == Init /\ [][ClockNext]_vars

(* -------------------- the schema, one call per input ------------------ *)

SchemaInit ==
    /\ now = 0
    /\ Construct(DictConfig(None))
    /\ pandas = PandasLatest
    /\ data \in Frames
    /\ schema \in {DatasetSchema(r, t) : r \in NameLists(MaxSchemaLen),
                                         t \in TypeDicts(MaxSchemaLen)}
    /\ result = NoCall
    /\ op = "init"
    /\ calls = 0
    /\ ok_sum = 0
    /\ clock_reads = <<>>
    /\ OneCaller

\* schema.validate_dataframe(data)
CallValidateDataframe ==
    /\ op = "init"
    /\ op' = "validate_dataframe"
    /\ result' = ValidateDataframe(schema, data)
    /\ UNCHANGED <<config, processed_count, start_time, now, pandas, data, calls,
                   ok_sum, schema, clock_reads, threads, overlapped>>

SchemaNext == CallValidateDataframe

SpecSchema == SchemaInit /\ [][SchemaNext]_vars

(* ------------- one processor, called from parallel threads ------------ *)

ThreadIds == 1..MaxThreads

\* A thread that is in no call: pc is its place in process_dataset, outcome
\* what its call returns, loaded the value of self._processed_count it read.
Idle == [pc |-> "idle", outcome |-> NoCall, loaded |-> 0]

\* The threads that are between the statistics and the end of the += of
\* process_dataset.
UnderWay == {i \in DOMAIN threads : threads[i].pc \in {"stats", "loaded"}}

ThreadInit ==
    /\ now = 0
    /\ \E c \in Configs : Construct(c)
    /\ pandas \in PandasVersions
    /\ data = DataFrame([id |-> "int64", value |-> "float64"], <<>>)
    /\ result = NoCall
    /\ op = "init"
    /\ calls = 0
    /\ ok_sum = 0
    /\ schema = NoSchema
    /\ clock_reads = <<>>
    /\ threads = [i \in ThreadIds |-> Idle]
    /\ overlapped = FALSE

\* Thread i calls process_dataset(t) and runs it up to the statistics; a
\* failure on the way returns the failed result at once.
Begin(i, t) ==
    /\ calls < MaxCalls
    /\ threads[i].pc \in {"idle", "done"}
    /\ calls' = calls + 1
    /\ data' = t
    /\ overlapped' = (overlapped \/ UnderWay # {})
    /\ \E out \in {Pipeline(config, t, pandas)} :
           IF Raised(out)
           THEN /\ threads' = [threads EXCEPT ![i] =
                                  [pc |-> "done", outcome |-> Except(out.raised),
                                   loaded |-> 0]]
                /\ result' = Except(out.raised)
                /\ op' = "process_dataset"
           ELSE /\ threads' = [threads EXCEPT ![i] =
                                  [pc |-> "stats",
                                   outcome |-> Return(ProcessingResult(
                                       Some(out.value[1]),
                                       Stats(out.value[1], start_time, now), TRUE)),
                                   loaded |-> 0]]
                /\ UNCHANGED <<result, op>>
    /\ UNCHANGED <<config, processed_count, start_time, now, pandas, ok_sum, schema,
                   clock_reads>>

\* Thread i reads self._processed_count, the first half of the +=.
Load(i) ==
    /\ threads[i].pc = "stats"
    /\ threads' = [threads EXCEPT ![i].pc = "loaded", ![i].loaded = processed_count]
    /\ UNCHANGED <<config, processed_count, start_time, now, pandas, data, result, op,
                   calls, ok_sum, schema, clock_reads, overlapped>>

\* Thread i writes self._processed_count, the second half of the +=, and
\* returns its result.
Store(i) ==
    /\ threads[i].pc = "loaded"
    /\ processed_count' = Accumulate(threads[i].loaded, threads[i].outcome.value[1].stats)
    /\ threads' = [threads EXCEPT ![i].pc = "done"]
    /\ result' = threads[i].outcome
    /\ op' = "process_dataset"
    /\ ok_sum' = ok_sum + threads[i].outcome.value[1].stats.record_count
    /\ UNCHANGED <<config, start_time, now, pandas, data, calls, schema, clock_reads,
                   overlapped>>

ThreadNext ==
    \/ \E i \in ThreadIds, t \in ShortTables : Begin(i, t)
    \/ \E i \in ThreadIds : Load(i)
    \/ \E i \in ThreadIds : Store(i)

SpecThreads == ThreadInit /\ [][ThreadNext]_vars

(* ======================= properties of the result ====================== *)

\* The ProcessingResult the last call returned.
Returned == result.value[1]

\* The last call was process_dataset and it returned.
ProcessReturned == op = "process_dataset" /\ ~Raised(result)

\* C1: every ProcessingResult process_dataset returns has success = TRUE
\* exactly when data is present; a failed one has 'error' in stats and a
\* successful one has 'record_count' and 'processing_time' in stats.
C1_ResultInvariant ==
    ProcessReturned =>
        /\ Returned.success <=> Returned.data # None
        /\ ~Returned.success => "error" \in DOMAIN Returned.stats
        /\ Returned.success =>
               {"record_count", "processing_time"} \subseteq DOMAIN Returned.stats

\* A failed result and its error entry, from a table that is not empty.
C1_Witness ==
    /\ ProcessReturned
    /\ ~IsEmpty(data)
    /\ ~Returned.success
    /\ Returned.data = None
    /\ "error" \in DOMAIN Returned.stats

\* C2: no failure of process_dataset escapes as a raised error: an empty
\* table returns exactly the failed result with 'Empty dataset provided',
\* and a failure of a stage returns the failed result with that failure's
\* message; so the call always returns a result, to a caller that can go
\* on to the next table.
C2_NoFailureEscapes ==
    op = "process_dataset" =>
        /\ ~Raised(result)
        /\ IsEmpty(data) =>
               Returned = [data |-> None, stats |-> [error |-> EmptyDataset],
                           success |-> FALSE]
        /\ LET out == Pipeline(config, data, pandas)
           IN  Raised(out) =>
                   Returned = [data |-> None, stats |-> [error |-> out.raised[1]],
                               success |-> FALSE]

\* A second call on a processor whose every call on a table with rows
\* fails in the missing-value stage.
C2_Witness ==
    /\ op = "process_dataset"
    /\ calls >= 2
    /\ ~IsEmpty(data)
    /\ ~Raised(result)
    /\ ~Returned.success
    /\ Returned.stats.error = AttributeErrorGet

\* What a step of the sequential specification does to the counter: a call
\* that succeeds adds its record_count, the row count of its data; any
\* other step leaves the counter alone.
C3_Step ==
    IF calls' = calls + 1 /\ ~Raised(result') /\ result'.value[1].success
    THEN /\ processed_count' = processed_count + result'.value[1].stats.record_count
         /\ result'.value[1].stats.record_count = RowCount(result'.value[1].data[1])
         /\ processed_count' >= processed_count
    ELSE processed_count' = processed_count

\* C3: total_processed starts at 0, never decreases, grows by record_count
\* (the row count of the returned data) on a successful call and is left
\* alone by a failed one: it is the sum of record_count over the successful
\* results so far.
C3_TotalProcessed ==
    /\ processed_count = 0
    /\ [][C3_Step]_vars
    /\ [](processed_count = ok_sum)

\* Two successful calls have added their rows to the counter.
C3_Witness ==
    /\ ProcessReturned
    /\ calls >= 2
    /\ Returned.success
    /\ Returned.stats.record_count > 0
    /\ processed_count > Returned.stats.record_count

(* ======================= properties of the stages ====================== *)

\* The strategy _handle_missing_values read from the configuration.
StrategyRead == ConfigGet(config).value[1]

\* The last call was the given stage and it returned a table.
StageReturned(stage) == op = stage /\ ~Raised(result)

\* No cell of column c is missing in df.
Complete(df, c) == \A j \in 1..RowCount(df) : ~IsNaN(df.rows[j][c])

\* Some cell of column c is present in df.
SomePresent(df, c) == \E j \in 1..RowCount(df) : ~IsNaN(df.rows[j][c])

\* The numeric columns of df, as a set.
NumericSet(df) == ToSet(NumericCols(df))

\* C4 as claimed: after _handle_missing_values with 'mean' or 'median' no
\* numeric column of the output has a missing cell, and with 'drop' no row
\* of the output has a missing cell in any column.
C4_Completeness ==
    StageReturned("_handle_missing_values") =>
        /\ StrategyRead \in {"mean", "median"} =>
               \A c \in NumericSet(Returned) : Complete(Returned, c)
        /\ StrategyRead = "drop" =>
               \A c \in ColSet : Complete(Returned, c)

\* The mean or the median, as the strategy read names it, of column c of
\* the table handed to the stage.
StrategyValue(c) == ReduceColumn(Column(data, c), StrategyRead)

\* C4 as amended: after _handle_missing_values with 'mean' or 'median' a
\* numeric column of the output whose mean (or median) in the input is a
\* number has no missing cell, and one whose mean (or median) is NaN, as
\* that of a column with no present cell is, has the cells of the input,
\* the missing ones still missing; with 'drop' no row of the output has a
\* missing cell in any column.
C4_CompletenessWhereDefined ==
    StageReturned("_handle_missing_values") =>
        /\ StrategyRead \in {"mean", "median"} =>
               \A c \in NumericSet(Returned) :
                   IF IsNaN(StrategyValue(c))
                   THEN Column(Returned, c) = Column(data, c)
                   ELSE Complete(Returned, c)
        /\ StrategyRead = "drop" =>
               \A c \in ColSet : Complete(Returned, c)

\* The mean has filled the missing cells of a numeric column.
C4_Witness ==
    /\ StageReturned("_handle_missing_values")
    /\ StrategyRead = "mean"
    /\ data.dtypes["value"] = "float64"
    /\ SomePresent(data, "value")
    /\ ~Complete(data, "value")
    /\ Complete(Returned, "value")
    /\ RowCount(Returned) = RowCount(data)

\* The cell is no outlier of column c of df: it is missing, or it lies in
\* [Q1 - 1.5*IQR, Q3 + 1.5*IQR] for the quartiles of the column in df.
InBounds(df, c, cell) ==
    LET Q1  == Quantile(Column(df, c), 1)
        Q3  == Quantile(Column(df, c), 3)
        IQR == RSub(Q3, Q1)
    IN  \/ IsNaN(cell)
        \/ /\ ~RLess(cell, RSub(Q1, RMul(<<3, 2>>, IQR)))
           /\ ~RLess(RAdd(Q3, RMul(<<3, 2>>, IQR)), cell)

\* The rows of df that are in bounds in every numeric column of df.
InBoundsRows(df) ==
    Filter(df, [i \in 1..RowCount(df) |->
                   \A c \in NumericSet(df) : InBounds(df, c, df.rows[i][c])])

\* C5: _remove_outliers never adds a row; every cell it keeps in a numeric
\* column lies within the bounds of that column in the table as it entered
\* the stage; and the rows it keeps are the rows that are within those
\* bounds in every numeric column.
C5_OutlierBounds ==
    StageReturned("_remove_outliers") =>
        /\ RowCount(Returned) <= RowCount(data)
        /\ \A c \in NumericSet(data) : \A j \in 1..RowCount(Returned) :
               InBounds(data, c, Returned.rows[j][c])
        /\ Returned = InBoundsRows(data)

\* Column id removes a row and column value another, one that is within
\* the bounds of value over the rows column id has left.
C5_Witness ==
    /\ StageReturned("_remove_outliers")
    /\ \E i, k \in 1..RowCount(data) :
           /\ ~InBounds(data, "id", data.rows[k]["id"])
           /\ InBounds(data, "id", data.rows[i]["id"])
           /\ ~InBounds(data, "value", data.rows[i]["value"])
           /\ InBounds(MaskRows(data, data, OutlierMask(data, "id")), "value",
                       data.rows[i]["value"])
           /\ data.index[i] \notin ToSet(Returned.index)
           /\ data.index[k] \notin ToSet(Returned.index)

(* ======================= properties of the schema ====================== *)

\* The last call was validate_dataframe.
Validated == op = "validate_dataframe"

\* The required columns the table lacks.
Lacking == ToSet(schema.required_columns) \ Columns(data)

\* Item i of column_types names a column of the table that has another
\* dtype than the item expects.
Mismatch(i) ==
    /\ schema.column_types[i][1] \in Columns(data)
    /\ data.dtypes[schema.column_types[i][1]] # schema.column_types[i][2]

Mismatches == {i \in 1..Len(schema.column_types) : Mismatch(i)}

\* The message for the first mismatching item of column_types.
FirstMismatchMessage ==
    LET i == CHOOSE k \in Mismatches : \A m \in Mismatches : k <= m
    IN  <<"Column '", schema.column_types[i][1], "' has type ",
          data.dtypes[schema.column_types[i][1]], ", expected ",
          schema.column_types[i][2]>>

\* C6: on a table that lacks a required column validate_dataframe raises
\* 'Missing required columns: ...' naming exactly the set of the required
\* columns the table lacks, also when a column of the table has another
\* dtype than column_types expects.
C6_MissingColumns ==
    Validated /\ Lacking # {} =>
        /\ Raised(result)
        /\ result.raised[1] = <<"Missing required columns: ", Lacking>>

\* A required column is listed twice and lacking, and a column of the
\* table has a dtype column_types does not expect.
C6_Witness ==
    /\ Validated
    /\ Mismatches # {}
    /\ \E i, j \in 1..Len(schema.required_columns) :
           /\ i # j
           /\ schema.required_columns[i] = schema.required_columns[j]
           /\ schema.required_columns[i] \notin Columns(data)
    /\ Raised(result)
    /\ result.raised[1] = <<"Missing required columns: ", Lacking>>

\* C7 as claimed: validate_dataframe returns True exactly when no required
\* column is lacking and no column of the table mismatches column_types (a
\* declared column the table lacks is not checked), and a mismatch raises
\* the message of the first mismatching column.
C7_Validate ==
    Validated =>
        /\ result = Return(TRUE) <=> (Lacking = {} /\ Mismatches = {})
        /\ Mismatches # {} =>
               Raised(result) /\ result.raised[1] = FirstMismatchMessage

\* C7 as amended: validate_dataframe returns True exactly when no required
\* column is lacking and no column of the table mismatches column_types (a
\* declared column the table lacks is not checked), and when no required
\* column is lacking a mismatch raises the message of the first
\* mismatching column.
C7_ValidateTypesAfterColumns ==
    Validated =>
        /\ result = Return(TRUE) <=> (Lacking = {} /\ Mismatches = {})
        /\ (Lacking = {} /\ Mismatches # {}) =>
               Raised(result) /\ result.raised[1] = FirstMismatchMessage

\* column_types declares a column the table lacks, then a column of the
\* table with another dtype, and the message is about the second.
C7_Witness ==
    /\ Validated
    /\ schema.required_columns # <<>>
    /\ Lacking = {}
    /\ Len(schema.column_types) >= 2
    /\ schema.column_types[1][1] \notin Columns(data)
    /\ Mismatch(2)
    /\ Raised(result)
    /\ result.raised[1][2] = schema.column_types[2][1]

(* ====================== properties of the pipeline ===================== *)

\* The strategy of the configuration is none of 'mean', 'median', 'drop':
\* another string, or no strategy at all.
UnknownStrategy ==
    config.strategy = None \/ config.strategy[1] \notin KnownStrategies

\* The configuration with the strategy 'mean' in the place of its own.
WithMean == [config EXCEPT !.strategy = Some("mean")]

\* C8: a processor whose strategy is none of 'mean', 'median', 'drop'
\* returns what a processor configured with 'mean' returns on the same
\* table: the same success, the same data and the same record_count.
C8_FallbackIsMean ==
    (op = "process_dataset" /\ UnknownStrategy) =>
        result = ProcessDataset(WithMean, 0, start_time, now, data, pandas).outcome

\* An unknown strategy has filled the missing cells of a column, as the
\* mean does, in a table where the median is another value.
C8_Witness ==
    /\ ProcessReturned
    /\ config = DictConfig(Some("bogus"))
    /\ Returned.success
    /\ ~Complete(data, "value")
    /\ Complete(Returned.data[1], "value")
    /\ Mean(Column(data, "value")) # Median(Column(data, "value"))
    /\ Returned.stats.record_count = RowCount(data)

\* The row of the input table that has the given label.
InputRow(label) == data.rows[label + 1]

\* The row of the input table with the given label misses a cell.
Incomplete(label) == \E c \in ColSet : IsNaN(InputRow(label)[c])

\* C9 as claimed: the data of a successful result has no two identical
\* rows: dropping its duplicates leaves it as it is.
C9_NoDuplicates ==
    (ProcessReturned /\ Returned.success) =>
        DropDuplicates(Returned.data[1]) = Returned.data[1]

\* C9 as amended: the rows of a successful result are first occurrences of
\* their rows in the input, in the input's order, and two identical rows
\* among them come from input rows of which one missed a cell that the
\* imputation filled; under 'drop' no two rows are identical.
C9_NoDuplicatesButFilled ==
    (ProcessReturned /\ Returned.success) =>
        LET out == Returned.data[1]
        IN  /\ \A j \in 1..RowCount(out) : \A k \in 1..out.index[j] :
                   data.rows[k] # InputRow(out.index[j])
            /\ \A j, k \in 1..RowCount(out) : j < k => out.index[j] < out.index[k]
            /\ \A j, k \in 1..RowCount(out) :
                   (j < k /\ out.rows[j] = out.rows[k]) =>
                       Incomplete(out.index[j]) \/ Incomplete(out.index[k])
            /\ StrategyRead = "drop" => DropDuplicates(out) = out

\* The input repeats a row after another row, a stage after the
\* deduplication removes a row too, and the result has no two identical
\* rows.
C9_Witness ==
    /\ ProcessReturned
    /\ Returned.success
    /\ \E i, k \in 1..RowCount(data) : i + 1 < k /\ data.rows[i] = data.rows[k]
    /\ 1 < RowCount(Returned.data[1])
    /\ RowCount(Returned.data[1]) < RowCount(PreprocessData(data))
    /\ DropDuplicates(Returned.data[1]) = Returned.data[1]

\* C10: a processor constructed with a ProcessingConfig returns, on a table
\* with rows and numeric columns, a successful result with its data.
C10_ConfigObject ==
    (/\ op = "process_dataset"
     /\ config.kind = "ProcessingConfig"
     /\ ~IsEmpty(data)
     /\ \A c \in ColSet : data.dtypes[c] \in {"int64", "float64"}) =>
        /\ ~Raised(result)
        /\ Returned.success
        /\ Returned.data # None

(* ====================== properties of the threads ====================== *)

\* C11: the += of process_dataset is a read and a write with nothing to
\* guard them.  The counter never exceeds the sum of record_count over the
\* successful results returned, and as long as no call began while another
\* was under way (the caller serializes the calls) it equals that sum; with
\* overlapping calls an update can be lost (C11_Witness).
C11_DataRace ==
    /\ processed_count <= ok_sum
    /\ ~overlapped => processed_count = ok_sum

\* A lost update: two threads have each returned a successful result with
\* rows, and the counter holds less than the sum of their record_counts.
C11_Witness ==
    /\ \A i \in DOMAIN threads :
           /\ threads[i].pc = "done"
           /\ ~Raised(threads[i].outcome)
           /\ threads[i].outcome.value[1].success
           /\ threads[i].outcome.value[1].stats.record_count > 0
    /\ DOMAIN threads = ThreadIds
    /\ overlapped
    /\ processed_count < ok_sum

(* ======================= properties of the clock ======================= *)

\* The last access was processing_stats.
StatsRead == op = "processing_stats"

\* C12: every read of processing_stats returns a dict with the keys
\* total_processed, uptime_seconds and average_throughput, where
\* total_processed is the counter, left as it was, and average_throughput
\* is total_processed / uptime_seconds of the same dict, or 0 when that
\* uptime_seconds is 0; no read raises a division by zero.
C12_Snapshot ==
    StatsRead =>
        /\ ~Raised(result)
        /\ DOMAIN Returned = {"total_processed", "uptime_seconds", "average_throughput"}
        /\ Returned.total_processed = processed_count
        /\ Returned.average_throughput =
               IF Returned.uptime_seconds = 0 THEN Whole(0)
               ELSE Norm(Returned.total_processed, Returned.uptime_seconds)

\* The seconds from the construction to the first time the last call read
\* the clock.
Elapsed == clock_reads[1] - start_time

\* C13: processing_time of a successful result and uptime_seconds of a
\* read of processing_stats are the whole seconds elapsed from the
\* construction of the processor to the reading of the clock.
C13_ElapsedSeconds ==
    /\ (ProcessReturned /\ Returned.success) =>
           Returned.stats.processing_time = Elapsed
    /\ (StatsRead /\ ~Raised(result)) =>
           Returned.uptime_seconds = Elapsed

====
